---- MODULE Spec2Model ----
(***************************************************************************)
(* The notebook 11_dask_distributed.ipynb as a state machine.  The kernel  *)
(* runs the code cells top to bottom, one statement per step.  The state   *)
(* is the kernel's global namespace, the HDF5 file on disk, the worker     *)
(* pool of pyUSID.parallel_compute, the dask cluster behind the Client,    *)
(* and the matplotlib axis the last cell draws on.                         *)
(***************************************************************************)
EXTENDS Integers, Sequences, FiniteSets, TLC

(* ------------------------------ bounds -------------------------------- *)

\* Largest number of rows (spectra) of a dataset.
MaxRows == 2

\* The rows a dataset is built from: one with a peak at index 1, one with its
\* maximum on the border, and a flat one.
Rows == {<<0, 1, 0>>, <<1, 0, 0>>, <<0, 0, 0>>}

\* "The detector fails on no row."
NoRow == <<>>

RECURSIVE SeqsUpTo(_)
SeqsUpTo(n) ==
    IF n = 0 THEN {<<>>}
    ELSE LET shorter == SeqsUpTo(n - 1)
         IN  shorter \cup {Append(s, r) : s \in {t \in shorter : Len(t) = n - 1}, r \in Rows}

Datasets == SeqsUpTo(MaxRows)

(* ------------------------- program constants -------------------------- *)

\* [20, 60], the width bounds every cell writes down.
WidthBounds == <<20, 60>>

\* num_steps = 30
NumSteps == 30

\* cores = 3
Cores == 3

\* core_serial = 1
CoreSerial == 1

\* Client(processes=False) starts one in-process worker; the number of its
\* threads is the machine's.
WorkerThreads == 2

(* ------------------------------ state --------------------------------- *)

VARIABLES
    url_data,   \* the dataset held at the remote url
    bad_row,    \* the row find_all_peaks raises on (NoRow: none)
    h5_store,   \* temp.h5 on disk: <<>> (no file) or <<dataset>>
    ns,         \* the kernel's global namespace: name -> <<>> or <<value>>
    cell,       \* the cell being run, or "none"
    pc,         \* the source line of the next statement of that cell
    iter,       \* position of the iterator of the for loop of line 183
    status,     \* cell -> "pending" | "running" | "ok" | "error"
    error,      \* cell -> the exception that ended it ("" when none)
    now,        \* time.time()
    pool,       \* the worker pool of parallel_compute
    calls,      \* every call of find_all_peaks made so far
    cluster,    \* the dask cluster as the Client sees it
    plotted,    \* the points drawn on the axis
    saved       \* whether the figure was written to disk

vars == <<url_data, bad_row, h5_store, ns, cell, pc, iter, status, error, now,
          pool, calls, cluster, plotted, saved>>

env == <<url_data, bad_row>>

Cells == {"load", "serial", "parallel", "dask", "plot"}

Names == {"h5_main", "start", "raw_data", "serial_results", "time_serial",
          "core_serial", "args", "kwargs", "cores", "parallel_results",
          "time_parallel", "cores_parallel", "client", "raw_data_list", "L",
          "dask_results", "cores_dask", "time_dask", "axis", "png_name"}

IsBound(n) == Len(ns[n]) = 1

Val(n) == ns[n][1]

Assign(n, v) == [ns EXCEPT ![n] = <<v>>]

Assign2(n1, v1, n2, v2) == [ns EXCEPT ![n1] = <<v1>>, ![n2] = <<v2>>]

(* --------------------------- find_all_peaks --------------------------- *)

\* "finds all local maxima by simple comparison of neighbouring values":
\* the 0-based indices of the strict interior maxima, ascending.
IsPeak(vector, i) == vector[i] > vector[i - 1] /\ vector[i] > vector[i + 1]

PeakIndices(vector) ==
    LET inner == [k \in 1..(Len(vector) - 2) |-> k + 1]
        hits  == SelectSeq(inner, LAMBDA i : IsPeak(vector, i))
    IN  [k \in 1..Len(hits) |-> hits[k] - 1]

DetectorFails(vector) == vector = bad_row

find_all_peaks(vector, width_bounds, num_steps) == PeakIndices(vector)

\* One call of the detector, as the log keeps it.
Call(by, vector, width_bounds, num_steps) ==
    [by |-> by, vector |-> vector, width_bounds |-> width_bounds, num_steps |-> num_steps]

(* ------------------------- control of a cell -------------------------- *)

NextCell(c) ==
    CASE c = "load" -> "serial"
      [] c = "serial" -> "parallel"
      [] c = "parallel" -> "dask"
      [] c = "dask" -> "plot"
      [] c = "plot" -> "none"

FirstLine(c) ==
    CASE c = "load" -> 119
      [] c = "serial" -> 180
      [] c = "parallel" -> 204
      [] c = "dask" -> 236
      [] c = "plot" -> 269
      [] c = "none" -> 0

\* The statement ran; the next one of the cell is at `line`.
Goto(line) ==
    /\ pc' = line
    /\ now' = now + 1
    /\ UNCHANGED <<cell, status, error>>

\* The statement raised: the cell stops where it is, the rest of it is not run.
Raise(e) ==
    /\ status' = [status EXCEPT ![cell] = "error"]
    /\ error' = [error EXCEPT ![cell] = e]
    /\ now' = now + 1
    /\ UNCHANGED <<cell, pc>>

\* The last statement of the cell ran; the kernel goes on to the next cell.
Finish ==
    LET n == NextCell(cell)
    IN  /\ cell' = n
        /\ pc' = FirstLine(n)
        /\ status' = IF n = "none" THEN [status EXCEPT ![cell] = "ok"]
                     ELSE [status EXCEPT ![cell] = "ok", ![n] = "running"]
        /\ now' = now + 1
        /\ UNCHANGED error

Running(c) == cell = c /\ status[c] = "running"

(* ------------------------------- Init --------------------------------- *)

Init ==
    /\ url_data \in Datasets
    /\ bad_row \in Rows \cup {NoRow}
    /\ h5_store = <<>>
    /\ ns = [n \in Names |-> <<>>]
    /\ cell = "load"
    /\ pc = FirstLine("load")
    /\ iter = 0
    /\ status = [c \in Cells |-> IF c = "load" THEN "running" ELSE "pending"]
    /\ error = [c \in Cells |-> ""]
    /\ now = 0
    /\ pool = [active |-> FALSE, pending |-> {}, out |-> <<>>]
    /\ calls = {}
    /\ cluster = [conn |-> "Disconnected", trace |-> <<"Disconnected">>,
                  scatters |-> 0, tasks |-> <<>>, closes |-> 0]
    /\ plotted = <<>>
    /\ saved = FALSE

(* --------------------------- Find main dataset ------------------------ *)

\* h5_main[()]: the whole dataset, read from the file into a new array.
ReadAll == h5_store[1]

\* Lines 119-130: remove a stale temp.h5, fetch the file (wget may fail), open
\* it read-only and take the handle of Measurement_000/Channel_000/Raw_Data.
LoadCell ==
    /\ Running("load")
    /\ \E fetched \in BOOLEAN :
          IF fetched
          THEN /\ h5_store' = <<url_data>>
               /\ ns' = Assign("h5_main", "Raw_Data")
               /\ Finish
          ELSE /\ h5_store' = <<>>
               /\ ns' = ns
               /\ Raise("SourceUnavailable")
    /\ UNCHANGED <<env, iter, pool, calls, cluster, plotted, saved>>

(* ----------------------------- Compute Serially ----------------------- *)

\* The arguments line 184 hands to find_all_peaks besides the row.
SerialWidthBounds == WidthBounds

SerialNumSteps == NumSteps

\* 180: start = time.time()
SerialStart ==
    /\ ns' = Assign("start", now)
    /\ Goto(181)
    /\ UNCHANGED <<env, h5_store, iter, pool, calls, cluster, plotted, saved>>

\* 181: raw_data = h5_main[()]
SerialRead ==
    /\ IF IsBound("h5_main")
       THEN ns' = Assign("raw_data", ReadAll) /\ Goto(182)
       ELSE ns' = ns /\ Raise("NameError")
    /\ UNCHANGED <<env, h5_store, iter, pool, calls, cluster, plotted, saved>>

\* 182: serial_results = list()
SerialInit ==
    /\ ns' = Assign("serial_results", <<>>)
    /\ iter' = 0
    /\ Goto(183)
    /\ UNCHANGED <<env, h5_store, pool, calls, cluster, plotted, saved>>

\* 183-184: for vector in raw_data: serial_results.append(find_all_peaks(...))
SerialLoop ==
    /\ IF iter < Len(Val("raw_data"))
       THEN LET vector == Val("raw_data")[iter + 1]
            IN  /\ calls' = calls \cup {Call("serial", vector, SerialWidthBounds, SerialNumSteps)}
                /\ IF DetectorFails(vector)
                   THEN ns' = ns /\ iter' = iter /\ Raise("DetectionFailed")
                   ELSE /\ ns' = Assign("serial_results",
                                        Append(Val("serial_results"),
                                               find_all_peaks(vector, SerialWidthBounds, SerialNumSteps)))
                        /\ iter' = iter + 1
                        /\ Goto(183)
       ELSE /\ ns' = ns /\ iter' = iter /\ calls' = calls
            /\ Goto(185)
    /\ UNCHANGED <<env, h5_store, pool, cluster, plotted, saved>>

\* 185: time_serial = time.time()-start
SerialTime ==
    /\ ns' = Assign("time_serial", now - Val("start"))
    /\ Goto(186)
    /\ UNCHANGED <<env, h5_store, iter, pool, calls, cluster, plotted, saved>>

\* 186: core_serial = 1
SerialCores ==
    /\ ns' = Assign("core_serial", CoreSerial)
    /\ Finish
    /\ UNCHANGED <<env, h5_store, iter, pool, calls, cluster, plotted, saved>>

SerialCell ==
    /\ Running("serial")
    /\ CASE pc = 180 -> SerialStart
         [] pc = 181 -> SerialRead
         [] pc = 182 -> SerialInit
         [] pc = 183 -> SerialLoop
         [] pc = 185 -> SerialTime
         [] pc = 186 -> SerialCores


(* ------------------- Compute using parallel_compute ------------------- *)

\* func(vector, *func_args, **func_kwargs): the one positional argument after
\* the row becomes width_bounds, the keyword becomes num_steps.
ApplyFunc(by, vector, func_args, func_kwargs) ==
    Call(by, vector, func_args[1], func_kwargs.num_steps)

\* The results the workers produced, put back together by row index.
Reassemble(out, n) == [i \in 1..n |-> out[i]]

\* 204: start = time.time()
ParallelStart ==
    /\ ns' = Assign("start", now)
    /\ Goto(206)
    /\ UNCHANGED <<env, h5_store, iter, pool, calls, cluster, plotted, saved>>

\* 206: raw_data = h5_main[()]
ParallelRead ==
    /\ IF IsBound("h5_main")
       THEN ns' = Assign("raw_data", ReadAll) /\ Goto(208)
       ELSE ns' = ns /\ Raise("NameError")
    /\ UNCHANGED <<env, h5_store, iter, pool, calls, cluster, plotted, saved>>

\* 208-209: args = [[20, 60]]; kwargs = {'num_steps': 30}
ParallelArgs ==
    /\ ns' = Assign2("args", <<WidthBounds>>, "kwargs", [num_steps |-> NumSteps])
    /\ Goto(211)
    /\ UNCHANGED <<env, h5_store, iter, pool, calls, cluster, plotted, saved>>

\* 211: cores = 3
ParallelSetCores ==
    /\ ns' = Assign("cores", Cores)
    /\ Goto(213)
    /\ UNCHANGED <<env, h5_store, iter, pool, calls, cluster, plotted, saved>>

\* 213-214: parallel_results = usid.parallel_compute(raw_data, find_all_peaks,
\* cores=cores, func_args=args, func_kwargs=kwargs).  The rows go to the worker
\* pool, the workers finish them in any order, one failure fails the batch,
\* and the call returns the results in row order.
ParallelCompute ==
    /\ IF ~pool.active
       THEN /\ pool' = [active |-> TRUE, pending |-> 1..Len(Val("raw_data")), out |-> <<>>]
            /\ ns' = ns /\ calls' = calls
            /\ Goto(213)
       ELSE IF pool.pending = {}
       THEN /\ ns' = Assign("parallel_results", Reassemble(pool.out, Len(Val("raw_data"))))
            /\ pool' = [active |-> FALSE, pending |-> {}, out |-> <<>>]
            /\ calls' = calls
            /\ Goto(216)
       ELSE \E i \in pool.pending :
              LET vector == Val("raw_data")[i]
                  call   == ApplyFunc("parallel", vector, Val("args"), Val("kwargs"))
              IN  /\ calls' = calls \cup {call}
                  /\ ns' = ns
                  /\ IF DetectorFails(vector)
                     THEN /\ pool' = [active |-> FALSE, pending |-> {}, out |-> <<>>]
                          /\ Raise("DetectionFailed")
                     ELSE /\ pool' = [pool EXCEPT
                                        !.pending = @ \ {i},
                                        !.out = [j \in DOMAIN pool.out \cup {i} |->
                                                   IF j = i
                                                   THEN find_all_peaks(vector, call.width_bounds, call.num_steps)
                                                   ELSE pool.out[j]]]
                          /\ Goto(213)
    /\ UNCHANGED <<env, h5_store, iter, cluster, plotted, saved>>

\* 216: time_parallel = time.time() - start
ParallelTime ==
    /\ ns' = Assign("time_parallel", now - Val("start"))
    /\ Goto(217)
    /\ UNCHANGED <<env, h5_store, iter, pool, calls, cluster, plotted, saved>>

\* 217: cores_parallel = cores
ParallelCores ==
    /\ ns' = Assign("cores_parallel", Val("cores"))
    /\ Finish
    /\ UNCHANGED <<env, h5_store, iter, pool, calls, cluster, plotted, saved>>

ParallelCell ==
    /\ Running("parallel")
    /\ CASE pc = 204 -> ParallelStart
         [] pc = 206 -> ParallelRead
         [] pc = 208 -> ParallelArgs
         [] pc = 211 -> ParallelSetCores
         [] pc = 213 -> ParallelCompute
         [] pc = 216 -> ParallelTime
         [] pc = 217 -> ParallelCores

(* --------------------------- Compute using Dask ----------------------- *)

\* The connection enters state s.
Enter(s) == [cluster EXCEPT !.conn = s, !.trace = Append(@, s)]

\* Line 243 written so that it rebinds the dataset handle instead.
ScatterTargetHandle == "h5_main"

\* The name line 243 binds to what client.scatter returns.
ScatterTarget == "raw_data"

\* The name line 245 reads the rows of the tasks from.
MapSource == "raw_data_list"

Min(a, b) == IF a < b THEN a ELSE b

\* Iterating a dict yields its keys.
DictKeys(kwargs) == <<"num_steps">>

\* client.map(func, *iterables): one task per tuple of zip(*iterables).
ZipTasks(it1, it2, it3) ==
    [i \in 1..Min(Len(it1), Min(Len(it2), Len(it3))) |-> <<it1[i], it2[i], it3[i]>>]

\* 236: start = time.time()
DaskStart ==
    /\ ns' = Assign("start", now)
    /\ Goto(237)
    /\ UNCHANGED <<env, h5_store, iter, pool, calls, cluster, plotted, saved>>

\* 237: raw_data = h5_main[()]
DaskRead ==
    /\ IF IsBound("h5_main")
       THEN ns' = Assign("raw_data", ReadAll) /\ Goto(238)
       ELSE ns' = ns /\ Raise("NameError")
    /\ UNCHANGED <<env, h5_store, iter, pool, calls, cluster, plotted, saved>>

\* 238-239: args = [20, 60]; kwargs = {'num_steps': 30}
DaskArgs ==
    /\ ns' = Assign2("args", WidthBounds, "kwargs", [num_steps |-> NumSteps])
    /\ Goto(241)
    /\ UNCHANGED <<env, h5_store, iter, pool, calls, cluster, plotted, saved>>

\* 241: client = Client(processes=False); starting the cluster may fail.
DaskConnect ==
    /\ \E up \in BOOLEAN :
          IF up
          THEN /\ cluster' = Enter("Connected")
               /\ ns' = Assign("client", "Client")
               /\ Goto(243)
          ELSE /\ cluster' = cluster
               /\ ns' = ns
               /\ Raise("ClusterConnectionFailed")
    /\ UNCHANGED <<env, h5_store, iter, pool, calls, plotted, saved>>

\* 243: raw_data = client.scatter(raw_data): the array goes to the worker and
\* a future for it comes back; the transfer may fail.
DaskScatter ==
    /\ \E sent \in BOOLEAN :
          IF sent
          THEN /\ cluster' = [Enter("DataScattered") EXCEPT !.scatters = @ + 1]
               /\ ns' = Assign(ScatterTarget, "Future")
               /\ Goto(245)
          ELSE /\ cluster' = cluster
               /\ ns' = ns
               /\ Raise("ScatterFailed")
    /\ UNCHANGED <<env, h5_store, iter, pool, calls, plotted, saved>>

\* 245: L = client.map(find_all_peaks, raw_data_list, args, kwargs).  The
\* arguments are evaluated left to right; a name that is not bound raises.
DaskMap ==
    /\ IF IsBound(MapSource)
       THEN /\ cluster' = [Enter("TasksSubmitted") EXCEPT
                             !.tasks = ZipTasks(Val(MapSource), Val("args"), DictKeys(Val("kwargs")))]
            /\ ns' = Assign("L", "futures")
            /\ Goto(247)
       ELSE /\ cluster' = cluster
            /\ ns' = ns
            /\ Raise("NameError")
    /\ UNCHANGED <<env, h5_store, iter, pool, calls, plotted, saved>>

\* 247: dask_results = client.gather(L): blocks until every task has run.
DaskGather ==
    /\ calls' = calls \cup {Call("dask", cluster.tasks[i][1], cluster.tasks[i][2], cluster.tasks[i][3]) :
                              i \in 1..Len(cluster.tasks)}
    /\ IF \E i \in 1..Len(cluster.tasks) : DetectorFails(cluster.tasks[i][1])
       THEN /\ cluster' = cluster
            /\ ns' = ns
            /\ Raise("DetectionFailed")
       ELSE /\ cluster' = Enter("Gathered")
            /\ ns' = Assign("dask_results",
                            [i \in 1..Len(cluster.tasks) |->
                               find_all_peaks(cluster.tasks[i][1], cluster.tasks[i][2], cluster.tasks[i][3])])
            /\ Goto(249)
    /\ UNCHANGED <<env, h5_store, iter, pool, plotted, saved>>

\* 249: cores_dask = client.ncores(): a dict, worker address -> thread count.
DaskNcores ==
    /\ ns' = Assign("cores_dask", [w \in {"inproc://worker"} |-> WorkerThreads])
    /\ Goto(251)
    /\ UNCHANGED <<env, h5_store, iter, pool, calls, cluster, plotted, saved>>

\* 251: client.close()
DaskClose ==
    /\ cluster' = [Enter("Disconnected") EXCEPT !.closes = @ + 1]
    /\ ns' = ns
    /\ Goto(253)
    /\ UNCHANGED <<env, h5_store, iter, pool, calls, plotted, saved>>

\* 253: time_dask = time.time() - start
DaskTime ==
    /\ ns' = Assign("time_dask", now - Val("start"))
    /\ Finish
    /\ UNCHANGED <<env, h5_store, iter, pool, calls, cluster, plotted, saved>>

\* No cell binds raw_data_list, so line 245 raises in every run and the
\* statements of lines 247-253 are never executed.
DaskCell ==
    /\ Running("dask")
    /\ CASE pc = 236 -> DaskStart
         [] pc = 237 -> DaskRead
         [] pc = 238 -> DaskArgs
         [] pc = 241 -> DaskConnect
         [] pc = 243 -> DaskScatter
         [] pc = 245 -> DaskMap
         [] pc = 247 -> DaskGather
         [] pc = 249 -> DaskNcores
         [] pc = 251 -> DaskClose
         [] pc = 253 -> DaskTime

(* ------------------------------ Plot benchmarks ----------------------- *)

\* axis.scatter(cores, time, c=colour): both names are read, then the point is drawn.
Scatter(cores_name, time_name, colour, next) ==
    IF IsBound(cores_name) /\ IsBound(time_name)
    THEN /\ plotted' = Append(plotted, [cores |-> Val(cores_name), time |-> Val(time_name), c |-> colour])
         /\ Goto(next)
    ELSE /\ plotted' = plotted
         /\ Raise("NameError")

\* 269: fig, axis = plt.subplots(figsize=(3.5, 3.5))
PlotAxis ==
    /\ ns' = Assign("axis", "Axes")
    /\ Goto(270)
    /\ UNCHANGED <<env, h5_store, iter, pool, calls, cluster, plotted, saved>>

\* 270-272: the three points; 273-276: labels, legend, layout.
PlotPoints ==
    /\ CASE pc = 270 -> Scatter("core_serial", "time_serial", "blue", 271)
         [] pc = 271 -> Scatter("cores_parallel", "time_parallel", "green", 272)
         [] pc = 272 -> Scatter("cores_dask", "time_dask", "red", 273)
         [] pc = 273 -> plotted' = plotted /\ Goto(277)
    /\ UNCHANGED <<env, h5_store, ns, iter, pool, calls, cluster, saved>>

\* 277: plt.savefig('{}.png'.format(png_name))
PlotSave ==
    /\ IF IsBound("png_name")
       THEN saved' = TRUE /\ Finish
       ELSE saved' = saved /\ Raise("NameError")
    /\ UNCHANGED <<env, h5_store, ns, iter, pool, calls, cluster, plotted>>

PlotCell ==
    /\ Running("plot")
    /\ CASE pc = 269 -> PlotAxis
         [] pc \in 270..273 -> PlotPoints
         [] pc = 277 -> PlotSave

(* ------------------------------ the kernel ---------------------------- *)

data == <<url_data, bad_row, h5_store, ns, iter, pool, calls, cluster, plotted, saved>>

\* A cell raised and "Run All" stops: the cells below are not run.
RunAllStops ==
    /\ cell # "none"
    /\ status[cell] = "error"
    /\ cell' = "none"
    /\ pc' = 0
    /\ UNCHANGED <<status, error, now>>
    /\ UNCHANGED data

\* A cell raised and the user runs the cell below it all the same.
RunNextCell ==
    /\ cell \in Cells \ {"plot"}
    /\ status[cell] = "error"
    /\ cell' = NextCell(cell)
    /\ pc' = FirstLine(NextCell(cell))
    /\ status' = [status EXCEPT ![NextCell(cell)] = "running"]
    /\ UNCHANGED <<error, now>>
    /\ UNCHANGED data

Next ==
    \/ LoadCell
    \/ SerialCell
    \/ ParallelCell
    \/ DaskCell
    \/ PlotCell
    \/ RunAllStops
    \/ RunNextCell

Spec == Init /\ [][Next]_vars

(* ------------------------------ properties ---------------------------- *)

Ended(c) == status[c] \in {"ok", "error"}

Loaded == status["load"] = "ok"

\* The cluster could not be started or did not take the data.
ClusterFailed == error["dask"] \in {"ClusterConnectionFailed", "ScatterFailed"}

\* The Dask cell was run on the loaded dataset and has ended, and neither the
\* cluster nor the detector failed during it.
DaskRan ==
    /\ Loaded
    /\ Ended("dask")
    /\ ~ClusterFailed
    /\ error["dask"] # "DetectionFailed"

\* What a strategy has to return for the dataset: the detector's output per row.
Expected == [i \in 1..Len(url_data) |-> PeakIndices(url_data[i])]

FullTrace ==
    <<"Disconnected", "Connected", "DataScattered", "TasksSubmitted", "Gathered", "Disconnected">>

\* C1: whenever the Dask cell has ended, with or without an error, the
\* connection to the cluster is Disconnected again (the client was closed).
C1_ConnectionReleased ==
    Ended("dask") => cluster.conn = "Disconnected"

\* C2: once the three strategies have been run on the loaded dataset and none
\* was stopped by a failing detector or cluster, serial_results,
\* parallel_results and dask_results are bound and equal.
C2_SameResults ==
    (status["serial"] = "ok" /\ status["parallel"] = "ok" /\ DaskRan)
        => /\ IsBound("dask_results")
           /\ ns["serial_results"] = ns["parallel_results"]
           /\ ns["parallel_results"] = ns["dask_results"]

\* C3: each strategy that has run returns one entry per row of the dataset,
\* entry i being the detector's output for row i.
C3_ResultPerRow ==
    /\ status["serial"] = "ok" => ns["serial_results"] = <<Expected>>
    /\ status["parallel"] = "ok" => ns["parallel_results"] = <<Expected>>
    /\ DaskRan => ns["dask_results"] = <<Expected>>

\* C4: when the kernel has stopped after the dataset was loaded, the report
\* holds exactly three samples, one per strategy.
C4_ThreeSamples ==
    (cell = "none" /\ Loaded)
        => /\ Len(plotted) = 3
           /\ {plotted[i].c : i \in 1..Len(plotted)} = {"blue", "green", "red"}

C6_DatasetReadOnly ==
    Loaded => /\ h5_store = <<url_data>>
              /\ ns["h5_main"] = <<"Raw_Data">>
              /\ ReadAll = url_data
              /\ (cell \in {"serial", "parallel"} /\ IsBound("raw_data"))
                    => Val("raw_data") = url_data
              /\ (cell = "dask" /\ pc \in {238, 241, 243})
                    => Val("raw_data") = url_data

\* C6 witness: the three strategy cells have all been run on a dataset with
\* rows, the serial loop and the worker pool have read it and the Dask cell
\* has scattered it.
C6_Witness ==
    /\ Loaded
    /\ Len(url_data) > 0
    /\ status["serial"] = "ok"
    /\ status["parallel"] = "ok"
    /\ Ended("dask")
    /\ cluster.scatters = 1

C8_EmptyDataset ==
    (Loaded /\ url_data = <<>>)
        => /\ Ended("serial") => /\ status["serial"] = "ok"
                                 /\ ns["serial_results"] = << <<>> >>
                                 /\ IsBound("core_serial")
           /\ Ended("parallel") => /\ status["parallel"] = "ok"
                                   /\ ns["parallel_results"] = << <<>> >>
                                   /\ IsBound("cores_parallel")
           /\ (Ended("dask") /\ ~ClusterFailed)
                 => /\ status["dask"] = "ok"
                    /\ ns["dask_results"] = << <<>> >>
                    /\ IsBound("cores_dask")

\* C9: a Dask run has scattered the dataset exactly once and submitted one
\* task per row, task i on row i.
C9_OneTaskPerRow ==
    DaskRan => /\ cluster.scatters = 1
               /\ Len(cluster.tasks) = Len(url_data)
               /\ \A i \in 1..Len(cluster.tasks) : cluster.tasks[i][1] = url_data[i]

====
